---- MODULE Spec2Model ----
(***************************************************************************)
(* Model of the indigo/drastic tree namespace (indigo/models/collection.py)*)
(* over the tree_entry and data_object tables.  A path is a sequence of    *)
(* one-character strings ("/a/b" is <<"/","a","/","b">>), so merge, split, *)
(* endswith('/') and name[:-1] are computed on the text of the path.       *)
(* Collection names given to the operations are path components (they hold *)
(* no '/').  Timestamps and container_metadata are not modelled.           *)
(***************************************************************************)
EXTENDS Integers, Sequences, FiniteSets, TLC

VARIABLES tree_entry,   \* table tree_entry: <<container, name>> -> row
          data_object,  \* table data_object: <<uuid, sequence_number>> -> row
          nextId,       \* next value handed out by default_cdmi_id()
          last,         \* the last completed call and its outcome
          pre,          \* tree_entry before the last call
          preData,      \* data_object before the last call
          search_index, \* table search_index2: the set of its rows
          procs         \* the calls in progress, one record per caller

vars == <<tree_entry, data_object, nextId, last, pre, preData, search_index, procs>>

----------------------------------------------------------------------------
(* Bounds *)

MaxDepth == 2      \* deepest collection path the calls are given
MaxIds == 7        \* number of identifiers default_cdmi_id() may hand out

----------------------------------------------------------------------------
(* Values *)

Root == <<"/">>
Self == <<".">>
Slash == <<"/">>
Home == <<"Home">>
NoPath == <<>>                  \* Python None where a path is expected
None == [found |-> FALSE]       \* Python None where an object is expected
NoId == 0                       \* a column that was never set
EmptyTable == [k \in {} |-> NoId]
EmptyAcl == [g \in {} |-> ""]
Authenticated == "AUTHENTICATED@"

\* acemask of the three levels, and a mask that is none of them
MaskRead == 1
MaskWrite == 14
MaskReadWrite == 15
MaskOther == 16

\* indigo.models.acl.str_to_acemask(level, is_object)
str_to_acemask(level, is_object) ==
    IF level = "read" THEN MaskRead
    ELSE IF level = "write" THEN MaskWrite
    ELSE IF level = "read/write" THEN MaskReadWrite
    ELSE 0

\* indigo.models.acl.acemask_to_str(acemask, is_object)
acemask_to_str(acemask, is_object) ==
    IF acemask = MaskRead THEN "read"
    ELSE IF acemask = MaskWrite THEN "write"
    ELSE IF acemask = MaskReadWrite THEN "read/write"
    ELSE "unknown"

\* the user defined type Ace
Ace(acetype, identifier, aceflags, acemask) ==
    [acetype |-> acetype, identifier |-> identifier,
     aceflags |-> aceflags, acemask |-> acemask]

DefaultAcl ==
    [g \in {Authenticated} |->
        Ace("ALLOW", Authenticated, 0, str_to_acemask("read", FALSE))]
InitialBlob == "data"

\* the callers that run at the same time, and a caller with no call running
Procs == {"p1", "p2"}
IdleProc ==
    [pc |-> "idle", container |-> NoPath, name |-> <<>>, cid |-> NoId,
     result |-> "none", reissue |-> FALSE]

NameSeq == << <<"a">>, <<"b">> >>     \* the names the calls are given
Names == {NameSeq[i] : i \in 1..Len(NameSeq)}

----------------------------------------------------------------------------
(* Path algebra (indigo.util) *)

merge(container, name) ==
    IF container[Len(container)] = "/"
    THEN container \o name
    ELSE container \o Slash \o name

LastSlash(path) ==
    CHOOSE i \in 1..Len(path) :
        /\ path[i] = "/"
        /\ \A j \in (i+1)..Len(path) : path[j] # "/"

split(path) ==
    IF path = Root
    THEN <<NoPath, <<>>>>
    ELSE LET i == LastSlash(path)
         IN <<IF i = 1 THEN Root ELSE SubSeq(path, 1, i - 1),
              SubSeq(path, i + 1, Len(path))>>

RECURSIVE PathsOfDepth(_)
PathsOfDepth(d) ==
    IF d = 0 THEN {Root}
    ELSE {merge(p, n) : p \in PathsOfDepth(d - 1), n \in Names}

Paths == UNION {PathsOfDepth(d) : d \in 0..MaxDepth}
Containers == UNION {PathsOfDepth(d) : d \in 0..(MaxDepth - 1)}

endswith(name, c) == Len(name) > 0 /\ name[Len(name)] = c
startswith(s, prefix) ==
    Len(s) >= Len(prefix) /\ SubSeq(s, 1, Len(prefix)) = prefix

----------------------------------------------------------------------------
(* The tree_entry table (indigo.models.TreeEntry over the backing store) *)

Row(id, container_id, acl) ==
    [id |-> id, container_id |-> container_id, container_acl |-> acl]

\* write one row, replacing the row with the same primary key
Put(t, key, row) ==
    [k \in DOMAIN t \cup {key} |-> IF k = key THEN row ELSE t[k]]

Remove(t, keys) == [k \in DOMAIN t \ keys |-> t[k]]

\* TreeEntry.create(container=, name=, id=): container_id gets its default
TreeEntryCreate(t, container, name, id, cid) ==
    Put(t, <<container, name>>, Row(id, cid, EmptyAcl))

\* entry.id = value; entry.save()
TreeEntrySetId(t, key, id) ==
    Put(t, key, [t[key] EXCEPT !.id = id])

\* entry.add_default_acl()
add_default_acl(t, key) ==
    Put(t, key, [t[key] EXCEPT !.container_acl = DefaultAcl])

\* TreeEntry.objects.filter(container=c)
FilterContainer(t, container) == {k \in DOMAIN t : k[1] = container}

Entry(t, key) ==
    [container |-> key[1], name |-> key[2], id |-> t[key].id,
     container_id |-> t[key].container_id,
     container_acl |-> t[key].container_acl]

\* clustering order of the name column (text order)
CharRank(c) ==
    IF c = "." THEN 1 ELSE IF c = "/" THEN 2 ELSE IF c = "a" THEN 3 ELSE 4

RECURSIVE NameLess(_, _)
NameLess(x, y) ==
    IF Len(x) = 0 THEN Len(y) > 0
    ELSE IF Len(y) = 0 THEN FALSE
    ELSE IF CharRank(x[1]) # CharRank(y[1])
         THEN CharRank(x[1]) < CharRank(y[1])
         ELSE NameLess(Tail(x), Tail(y))

RECURSIVE SortNames(_)
SortNames(S) ==
    IF S = {} THEN <<>>
    ELSE LET m == CHOOSE x \in S : \A y \in S \ {x} : NameLess(x, y)
         IN <<m>> \o SortNames(S \ {m})

----------------------------------------------------------------------------
(* The data_object table (indigo/models/data_object.py) *)

\* The static columns of partition uuid are kept at <<uuid, StaticKey>>, a
\* position below every sequence_number the callers use.
StaticKey == -1

\* the static columns that have a default: size and type
StaticDefaults == [size |-> 0, type |-> "UNKNOWN"]

\* the rows of partition uuid, the static columns left out
ChunkKeys(d, uuid) == {k \in DOMAIN d : k[1] = uuid /\ k[2] # StaticKey}

\* the static columns of partition uuid; a column never written is null
Static(d, uuid) ==
    IF <<uuid, StaticKey>> \in DOMAIN d THEN d[<<uuid, StaticKey>>]
    ELSE [size |-> NoId, type |-> "", acl |-> EmptyAcl]

\* Model.save() of a new instance: an INSERT of the row and of every column
\* that has a value, the ones filled in from a column default included; the
\* acl map of a new instance is empty and is not written
save(d, uuid, sequence_number, blob, compressed) ==
    LET s == Static(d, uuid)
    IN Put(Put(d, <<uuid, sequence_number>>,
               [blob |-> blob, compressed |-> compressed]),
           <<uuid, StaticKey>>,
           [s EXCEPT !.size = StaticDefaults.size,
                     !.type = StaticDefaults.type])

\* DataObject.create(data, compressed): chunk 0 of a new uuid
DataObject_create(d, uuid, data, compressed) ==
    save(d, uuid, 0, data, compressed)

\* DataObject.create(data): chunk 0 of a new uuid
DataObjectCreate(d, uuid, data) == DataObject_create(d, uuid, data, FALSE)

\* DataObject.find(uuid): the first row of the partition, or None
DataObjectFind(d, uuid) ==
    IF ChunkKeys(d, uuid) = {} THEN None
    ELSE [found |-> TRUE, uuid |-> uuid]

\* delete_id removing the chunk rows and leaving the static columns
delete_id_keepStatic(d, uuid) == Remove(d, ChunkKeys(d, uuid))

\* DataObject.delete_id(uuid): DELETE FROM data_object WHERE uuid=%s
delete_id(d, uuid) == Remove(d, {k \in DOMAIN d : k[1] = uuid})

----------------------------------------------------------------------------
(* Resource (indigo.models.resource): an object named in the tree *)

\* Resource.find(path): the child row of an object, or None
ResourceFind(t, path) ==
    LET s == split(path)
    IN IF path # Root /\ <<s[1], s[2]>> \in DOMAIN t
       THEN [found |-> TRUE, container |-> s[1], name |-> s[2],
             id |-> t[<<s[1], s[2]>>].id]
       ELSE None

\* resource.delete(): the child row and the data object it refers to
ResourceDelete(t, d, resource) ==
    [tree |-> Remove(t, {<<resource.container, resource.name>>}),
     data |-> delete_id(d, resource.id)]

----------------------------------------------------------------------------
(* Collection (indigo/models/collection.py) *)

\* Collection.__init__ taking the basename where the parent is meant
Collection_parentIsName(entry) ==
    LET is_root == entry.name = Self /\ entry.container = Root
    IN [found |-> TRUE,
        is_root |-> is_root,
        name |-> IF is_root THEN Home ELSE split(entry.container)[2],
        path |-> entry.container,
        parent |-> split(entry.container)[2],
        id |-> entry.container_id,
        acl |-> entry.container_acl]

\* Collection.__init__(entry)
Collection(entry) ==
    LET is_root == entry.name = Self /\ entry.container = Root
    IN [found |-> TRUE,
        is_root |-> is_root,
        name |-> IF is_root THEN Home ELSE split(entry.container)[2],
        path |-> entry.container,
        parent |-> split(entry.container)[1],
        id |-> entry.container_id,
        acl |-> entry.container_acl]

\* Collection.find(path)
find(t, path) ==
    IF <<path, Self>> \in DOMAIN t
    THEN Collection(Entry(t, <<path, Self>>))
    ELSE None

\* the checks without the test of the parent collection
create_check_noParentCheck(t, container, name) ==
    LET path == merge(container, name)
    IN IF ResourceFind(t, merge(container, name)) # None
       THEN "ResourceConflictError"
       ELSE IF find(t, path) # None THEN "CollectionConflictError"
       ELSE "ok"

\* the checks with the collection test ahead of the resource test
create_check_collectionFirst(t, container, name) ==
    LET path == merge(container, name)
    IN IF find(t, container) = None THEN "NoSuchCollectionError"
       ELSE IF find(t, path) # None THEN "CollectionConflictError"
       ELSE IF ResourceFind(t, merge(container, name)) # None
            THEN "ResourceConflictError"
       ELSE "ok"

\* the checks without the test of an existing collection
create_check_noCollectionCheck(t, container, name) ==
    IF find(t, container) = None THEN "NoSuchCollectionError"
    ELSE IF ResourceFind(t, merge(container, name)) # None
         THEN "ResourceConflictError"
    ELSE "ok"

\* the three existence checks of Collection.create
create_check(t, container, name) ==
    LET path == merge(container, name)
    IN IF find(t, container) = None THEN "NoSuchCollectionError"
       ELSE IF ResourceFind(t, merge(container, name)) # None
            THEN "ResourceConflictError"
       ELSE IF find(t, path) # None THEN "CollectionConflictError"
       ELSE "ok"

\* the writes with the child row left to take an id of its own
create_write_freshChildId(t, container, name, cid1, cid2) ==
    LET path == merge(container, name)
        t1 == TreeEntryCreate(t, path, Self, NoId, cid1)
        t2 == TreeEntrySetId(t1, <<path, Self>>, t1[<<path, Self>>].container_id)
    IN TreeEntryCreate(t2, container, name \o Slash, cid2, cid2)

\* the writes of Collection.create; cid1, cid2 are the generated container ids
create_write(t, container, name, cid1, cid2) ==
    LET path == merge(container, name)
        t1 == TreeEntryCreate(t, path, Self, NoId, cid1)
        t2 == TreeEntrySetId(t1, <<path, Self>>, t1[<<path, Self>>].container_id)
    IN TreeEntryCreate(t2, container, name \o Slash,
                       t2[<<path, Self>>].container_id, cid2)

\* Collection.create(name, container)
create(t, container, name, cid1, cid2) ==
    LET check == create_check(t, container, name)
    IN IF check = "ok"
       THEN [tree |-> create_write(t, container, name, cid1, cid2),
             result |-> "ok"]
       ELSE [tree |-> t, result |-> check]

\* Collection.create_root()
create_root(t, cid) ==
    LET t1 == TreeEntryCreate(t, Root, Self, NoId, cid)
        t2 == TreeEntrySetId(t1, <<Root, Self>>, t1[<<Root, Self>>].container_id)
    IN add_default_acl(t2, <<Root, Self>>)

\* delete() without the removal of the row held by the parent
delete_keepChild(t, coll) ==
    Remove(t, FilterContainer(t, coll.path))

\* collection.delete()
delete(t, coll) ==
    LET t1 == Remove(t, FilterContainer(t, coll.path))
        child == <<coll.parent, coll.name \o Slash>>
    IN IF child \in DOMAIN t1 THEN Remove(t1, {child}) ELSE t1

\* get_child() returning the stored names of the child collections as they are
get_child_keepSlash(t, coll) ==
    LET names == {k[2] : k \in FilterContainer(t, coll.path)}
        entries == SortNames(names)
        isColl(n) == n # Self /\ endswith(n, "/")
        isObj(n) == n # Self /\ ~endswith(n, "/")
    IN <<SelectSeq(entries, isColl), SelectSeq(entries, isObj)>>

\* collection.get_child(): <<child collections, child objects>>
get_child(t, coll) ==
    LET names == {k[2] : k \in FilterContainer(t, coll.path)}
        entries == SortNames(names)
        isColl(n) == n # Self /\ endswith(n, "/")
        isObj(n) == n # Self /\ ~endswith(n, "/")
        strip(n) == SubSeq(n, 1, Len(n) - 1)
        colls == SelectSeq(entries, isColl)
    IN <<[i \in 1..Len(colls) |-> strip(colls[i])],
         SelectSeq(entries, isObj)>>

\* the loop over resources of Collection.delete_all
RECURSIVE DeleteResources(_, _, _)
DeleteResources(t, d, resources) ==
    IF Len(resources) = 0 THEN [tree |-> t, data |-> d, result |-> "ok"]
    ELSE IF Head(resources) = None
         THEN [tree |-> t, data |-> d, result |-> "AttributeError"]
    ELSE LET r == ResourceDelete(t, d, Head(resources))
         IN DeleteResources(r.tree, r.data, Tail(resources))

RECURSIVE delete_all(_, _, _)
RECURSIVE DeleteCollections(_, _, _)

\* the loop over child collections of Collection.delete_all
DeleteCollections(t, d, collections) ==
    IF Len(collections) = 0 THEN [tree |-> t, data |-> d, result |-> "ok"]
    ELSE IF Head(collections) = None
         THEN [tree |-> t, data |-> d, result |-> "AttributeError"]
    ELSE LET r == delete_all(t, d, Head(collections).path)
         IN IF r.result = "ok"
            THEN DeleteCollections(r.tree, r.data, Tail(collections))
            ELSE r

\* delete_all without the descent into the children
delete_all_noRecursion(t, d, path) ==
    LET parent == find(t, path)
    IN IF parent = None THEN [tree |-> t, data |-> d, result |-> "ok"]
       ELSE [tree |-> delete(t, parent), data |-> d, result |-> "ok"]

\* Collection.delete_all(path)
delete_all(t, d, path) ==
    LET parent == find(t, path)
    IN IF parent = None THEN [tree |-> t, data |-> d, result |-> "ok"]
       ELSE LET ch == get_child(t, parent)
                collections == [i \in 1..Len(ch[1]) |->
                                   find(t, merge(path, ch[1][i]))]
                resources == [i \in 1..Len(ch[2]) |->
                                   ResourceFind(t, merge(path, ch[2][i]))]
                r1 == DeleteResources(t, d, resources)
                r2 == IF r1.result = "ok"
                      THEN DeleteCollections(r1.tree, r1.data, collections)
                      ELSE r1
            IN IF r2.result = "ok"
               THEN [tree |-> delete(r2.tree, parent), data |-> r2.data,
                     result |-> "ok"]
               ELSE r2

\* Resource.create(name, container): a data object and its child row
ResourceCreate(t, d, container, name, uuid, cid) ==
    IF find(t, container) = None
    THEN [tree |-> t, data |-> d, result |-> "NoSuchCollectionError"]
    ELSE IF ResourceFind(t, merge(container, name)) # None
    THEN [tree |-> t, data |-> d, result |-> "ResourceConflictError"]
    ELSE [tree |-> TreeEntryCreate(t, container, name, uuid, cid),
          data |-> DataObjectCreate(d, uuid, InitialBlob),
          result |-> "ok"]

----------------------------------------------------------------------------
(* The calls *)

Call(op, container, name, result) ==
    [op |-> op, container |-> container, name |-> name, result |-> result]

NoCall == Call("none", NoPath, <<>>, "ok")

Init ==
    /\ tree_entry = EmptyTable
    /\ data_object = EmptyTable
    /\ nextId = 1
    /\ last = NoCall
    /\ pre = EmptyTable
    /\ preData = EmptyTable
    /\ search_index = {}
    /\ procs = [p \in Procs |-> IdleProc]

Record(call) ==
    /\ last' = call
    /\ pre' = tree_entry
    /\ preData' = data_object
    /\ UNCHANGED <<search_index, procs>>

CreateRoot ==
    /\ nextId <= MaxIds
    /\ tree_entry' = create_root(tree_entry, nextId)
    /\ nextId' = nextId + 1
    /\ Record(Call("createRoot", Root, <<>>, "ok"))
    /\ UNCHANGED data_object

CreateCollection ==
    \E container \in Containers, name \in Names :
        LET r == create(tree_entry, container, name, nextId, nextId + 1)
        IN /\ nextId + 1 <= MaxIds
           /\ tree_entry' = r.tree
           /\ nextId' = IF r.result = "ok" THEN nextId + 2 ELSE nextId
           /\ Record(Call("createCollection", container, name, r.result))
           /\ UNCHANGED data_object

DeleteCollection ==
    \E path \in Paths :
        LET coll == find(tree_entry, path)
        IN /\ tree_entry' = IF coll = None THEN tree_entry
                            ELSE delete(tree_entry, coll)
           /\ Record(Call("deleteCollection", path, <<>>,
                          IF coll = None THEN "NotFound" ELSE "ok"))
           /\ UNCHANGED <<data_object, nextId>>

DeleteRecursive ==
    \E path \in Paths :
        LET r == delete_all(tree_entry, data_object, path)
        IN /\ tree_entry' = r.tree
           /\ data_object' = r.data
           /\ Record(Call("deleteRecursive", path, <<>>, r.result))
           /\ UNCHANGED nextId

CreateObject ==
    \E container \in Containers, name \in Names :
        LET r == ResourceCreate(tree_entry, data_object, container, name,
                                nextId, nextId + 1)
        IN /\ nextId + 1 <= MaxIds
           /\ tree_entry' = r.tree
           /\ data_object' = r.data
           /\ nextId' = IF r.result = "ok" THEN nextId + 2 ELSE nextId
           /\ Record(Call("createObject", container, name, r.result))

Next ==
    \/ CreateRoot
    \/ CreateCollection
    \/ DeleteCollection
    \/ DeleteRecursive
    \/ CreateObject

Spec == Init /\ [][Next]_vars

----------------------------------------------------------------------------
(* Properties of the tree namespace *)

IsChildCollectionName(n) == n # Self /\ endswith(n, "/")
IsChildObjectName(n) == n # Self /\ ~endswith(n, "/")
StripSlash(n) == SubSeq(n, 1, Len(n) - 1)

SelfKey(path) == <<path, Self>>
ChildKey(path) == <<split(path)[1], split(path)[2] \o Slash>>

\* container is path or lies below it
InSubtree(container, path) ==
    \/ container = path
    \/ startswith(container, IF path = Root THEN Root ELSE path \o Slash)

\* the pairing of self-records and child-records in table t
PairingInv(t) ==
    /\ \A k \in DOMAIN t :
          (k[2] = Self /\ k[1] # Root) =>
              /\ ChildKey(k[1]) \in DOMAIN t
              /\ t[ChildKey(k[1])].id = t[k].id
              /\ Cardinality({c \in DOMAIN t : /\ IsChildCollectionName(c[2])
                                               /\ t[c].id = t[k].id}) = 1
    /\ \A k \in DOMAIN t :
          IsChildCollectionName(k[2]) =>
              SelfKey(merge(k[1], StripSlash(k[2]))) \in DOMAIN t
    /\ \A k \in DOMAIN t :
          IsChildCollectionName(k[2]) =>
              /\ merge(k[1], StripSlash(k[2])) # Root
              /\ (SelfKey(Root) \in DOMAIN t => t[k].id # t[SelfKey(Root)].id)

\* C1: in every state reached by completed createRoot, createCollection,
\* deleteCollection and deleteRecursive calls, each collection self-record
\* other than the root's has exactly one child-record with its id, each
\* child-collection record has its self-record, and the root has no
\* child-record.
C1_TreePairing == PairingInv(tree_entry)

\* C2: after a successful createCollection(parentPath, name) the table holds
\* exactly one self-record (merge(parentPath, name), ".") and exactly one
\* child-record (parentPath, name + "/"), and the child-record's id equals the
\* self-record's id, which equals its container_id.
C2_CreatePairsRecords ==
    (last.op = "createCollection" /\ last.result = "ok") =>
        LET path == merge(last.container, last.name)
            childKey == <<last.container, last.name \o Slash>>
        IN /\ Cardinality({k \in DOMAIN tree_entry :
                              k[1] = path /\ k[2] = Self}) = 1
           /\ Cardinality({k \in DOMAIN tree_entry :
                              /\ IsChildCollectionName(k[2])
                              /\ merge(k[1], StripSlash(k[2])) = path}) = 1
           /\ childKey \in DOMAIN tree_entry
           /\ tree_entry[childKey].id = tree_entry[SelfKey(path)].id
           /\ tree_entry[SelfKey(path)].id = tree_entry[SelfKey(path)].container_id
           /\ tree_entry[SelfKey(path)].id # NoId

C2_Witness ==
    /\ last.op = "createCollection"
    /\ last.result = "ok"
    /\ last.container # Root
    /\ SelfKey(merge(last.container, last.name)) \notin DOMAIN pre

\* get_child of the collection at path in table t, or no children when the
\* path is None or has no self-record
listChildren(t, path) ==
    IF find(t, path) = None THEN <<<<>>, <<>>>> ELSE get_child(t, find(t, path))

SeqRange(q) == {q[i] : i \in 1..Len(q)}

\* C3: after a completed deleteCollection on an existing collection P neither
\* (P, ".") nor (parent(P), basename(P) + "/") exists, find(P) returns None
\* and listChildren(parent(P)) does not list basename(P).
C3_DeleteRemovesPair ==
    (last.op = "deleteCollection" /\ SelfKey(last.container) \in DOMAIN pre) =>
        /\ last.result = "ok"
        /\ SelfKey(last.container) \notin DOMAIN tree_entry
        /\ ChildKey(last.container) \notin DOMAIN tree_entry
        /\ find(tree_entry, last.container) = None
        /\ split(last.container)[2] \notin
              SeqRange(listChildren(tree_entry, split(last.container)[1])[1])

C3_Witness ==
    /\ last.op = "deleteCollection"
    /\ last.result = "ok"
    /\ SelfKey(last.container) \in DOMAIN pre
    /\ ChildKey(last.container) \in DOMAIN pre
    /\ SelfKey(split(last.container)[1]) \in DOMAIN tree_entry

\* C4: a createCollection for a (parentPath, name) that a preceding
\* createCollection has created fails with CollectionConflict and leaves
\* every tree_entry row as it was.
C4_SecondCreateConflicts ==
    (/\ last.op = "createCollection"
     /\ find(pre, last.container) # None
     /\ ResourceFind(pre, merge(last.container, last.name)) = None
     /\ find(pre, merge(last.container, last.name)) # None) =>
        /\ last.result = "CollectionConflictError"
        /\ tree_entry = pre

\* the failing call follows the successful creation of the same target: the
\* target's container_id is the last but one identifier handed out
C4_Witness ==
    /\ last.op = "createCollection"
    /\ last.result = "CollectionConflictError"
    /\ SelfKey(merge(last.container, last.name)) \in DOMAIN pre
    /\ pre[SelfKey(merge(last.container, last.name))].container_id = nextId - 2
    /\ tree_entry = pre

\* C5: when a data object occupies the name under an existing parentPath,
\* createCollection fails with ResourceConflict, also when a collection of
\* that name exists as well, and writes no tree_entry row.
C5_ObjectConflict ==
    (/\ last.op = "createCollection"
     /\ find(pre, last.container) # None
     /\ ResourceFind(pre, merge(last.container, last.name)) # None) =>
        /\ last.result = "ResourceConflictError"
        /\ tree_entry = pre

C5_Witness ==
    /\ last.op = "createCollection"
    /\ last.result = "ResourceConflictError"
    /\ find(pre, merge(last.container, last.name)) # None
    /\ tree_entry = pre

\* C6: createCollection fails with NoSuchCollection whenever parentPath has no
\* self-record, and then the table is unchanged.
C6_NoSuchParent ==
    (last.op = "createCollection" /\ SelfKey(last.container) \notin DOMAIN pre) =>
        /\ last.result = "NoSuchCollectionError"
        /\ tree_entry = pre

C6_Witness ==
    /\ last.op = "createCollection"
    /\ last.result = "NoSuchCollectionError"
    /\ SelfKey(Root) \in DOMAIN pre
    /\ tree_entry = pre

\* C7: createRoot() called when a root self-record exists fails and leaves the
\* root record unchanged.
C7_CreateRootFailsOnExistingRoot ==
    (last.op = "createRoot" /\ SelfKey(Root) \in DOMAIN pre) =>
        /\ last.result # "ok"
        /\ tree_entry[SelfKey(Root)] = pre[SelfKey(Root)]

C9_DeleteTouchesTwoRows ==
    (last.op = "deleteCollection" /\ last.result = "ok") =>
        \A k \in DOMAIN pre :
            k \notin {SelfKey(last.container), ChildKey(last.container)} =>
                k \in DOMAIN tree_entry /\ tree_entry[k] = pre[k]

\* uuids of the objects named by the child-object rows of the subtree at path
ContainedObjects(t, path) ==
    {t[k].id : k \in {c \in DOMAIN t : /\ InSubtree(c[1], path)
                                       /\ IsChildObjectName(c[2])}}

\* C10: deleteRecursive(P) on a tree that satisfies the pairing invariant
\* completes, leaves no row whose container is P or a descendant of P,
\* removes P's child-record from parent(P), deletes every contained object
\* and leaves the rows outside the subtree unchanged; on a path with no
\* self-record it changes nothing.
C10_DeleteRecursive ==
    /\ (last.op = "deleteRecursive" /\ SelfKey(last.container) \notin DOMAIN pre) =>
          last.result = "ok" /\ tree_entry = pre /\ data_object = preData
    /\ (/\ last.op = "deleteRecursive"
        /\ SelfKey(last.container) \in DOMAIN pre
        /\ PairingInv(pre)) =>
          /\ last.result = "ok"
          /\ \A k \in DOMAIN tree_entry : ~InSubtree(k[1], last.container)
          /\ ChildKey(last.container) \notin DOMAIN tree_entry
          /\ \A dk \in DOMAIN data_object :
                dk[1] \notin ContainedObjects(pre, last.container)
          /\ \A k \in DOMAIN pre :
                (~InSubtree(k[1], last.container) /\ k # ChildKey(last.container))
                    => (k \in DOMAIN tree_entry /\ tree_entry[k] = pre[k])
          /\ \A dk \in DOMAIN preData :
                dk[1] \notin ContainedObjects(pre, last.container)
                    => (dk \in DOMAIN data_object /\ data_object[dk] = preData[dk])

C10_Witness ==
    /\ last.op = "deleteRecursive"
    /\ last.result = "ok"
    /\ PairingInv(pre)
    /\ last.container # Root
    /\ SelfKey(last.container) \in DOMAIN pre
    /\ \E k \in DOMAIN pre : k[1] = last.container /\ IsChildCollectionName(k[2])
    /\ ContainedObjects(pre, last.container) # {}
    /\ \A u \in ContainedObjects(pre, last.container) : <<u, 0>> \in DOMAIN preData
    /\ SelfKey(Root) \in DOMAIN tree_entry

----------------------------------------------------------------------------
(* Listing *)

\* the names stored under container path in table t, "." left out
StoredNames(t, path) == {k[2] : k \in FilterContainer(t, path)} \ {Self}

\* C11: listChildren(P) returns the names of the rows with container P other
\* than ".": the names stored with a trailing "/" as child collections,
\* without the "/", and all the others as child objects, each once; a
\* successful createCollection under P adds its name to the child
\* collections of P and nothing to the child objects.
C11_ListChildren ==
    /\ \A k \in DOMAIN tree_entry :
          k[2] = Self =>
              LET ch == listChildren(tree_entry, k[1])
              IN /\ \A n \in SeqRange(ch[1]) :
                        n \o Slash \in StoredNames(tree_entry, k[1])
                 /\ \A n \in SeqRange(ch[2]) :
                        n \in StoredNames(tree_entry, k[1]) /\ ~endswith(n, "/")
                 /\ \A s \in StoredNames(tree_entry, k[1]) :
                        IF endswith(s, "/")
                        THEN StripSlash(s) \in SeqRange(ch[1])
                        ELSE s \in SeqRange(ch[2])
                 /\ Len(ch[1]) + Len(ch[2])
                        = Cardinality(StoredNames(tree_entry, k[1]))
    /\ (last.op = "createCollection" /\ last.result = "ok") =>
          /\ SeqRange(listChildren(tree_entry, last.container)[1])
                = SeqRange(listChildren(pre, last.container)[1]) \cup {last.name}
          /\ listChildren(tree_entry, last.container)[2]
                = listChildren(pre, last.container)[2]

\* two collections created under a collection that held nothing
C11_Witness ==
    /\ last.op = "createCollection"
    /\ last.result = "ok"
    /\ last.container # Root
    /\ Len(listChildren(pre, last.container)[1]) = 1
    /\ SeqRange(listChildren(tree_entry, last.container)[1]) = Names
    /\ listChildren(tree_entry, last.container)[2] = <<>>

----------------------------------------------------------------------------
(* Groups and users (indigo.models.group, indigo.models.user) *)

GroupIds == {"g1"}
GroupName(gid) == "G1"

\* Group.find_by_uuid(gid)
find_by_uuid(gid) ==
    IF gid \in GroupIds
    THEN [found |-> TRUE, uuid |-> gid, name |-> GroupName(gid)]
    ELSE None

\* Group.find(name)
GroupFind(name) ==
    IF \E g \in GroupIds : GroupName(g) = name
    THEN LET g == CHOOSE x \in GroupIds : GroupName(x) = name
         IN [found |-> TRUE, uuid |-> g, name |-> name]
    ELSE None

User(administrator, groups) ==
    [administrator |-> administrator, groups |-> groups]

Users == {User(adm, grp) : adm \in BOOLEAN, grp \in {<<>>, <<"g1">>}}

AllActions == {"read", "write", "delete", "edit"}

----------------------------------------------------------------------------
(* ACL of a collection (TreeEntry.update_acl, TreeEntry.update_cdmi_acl) *)

\* gid.upper()
upper(gid) ==
    IF gid = "authenticated@" THEN Authenticated
    ELSE IF gid = "allow" THEN "ALLOW"
    ELSE gid

\* the identifier stored for gid, "" when gid resolves to nothing
Identifier(gid) ==
    IF find_by_uuid(gid) # None THEN find_by_uuid(gid).name
    ELSE IF upper(gid) = Authenticated THEN Authenticated
    ELSE ""

\* buildAcl(readIds, writeIds)
BuildAcl(read_access, write_access) ==
    LET ids == {g \in SeqRange(read_access) \cup SeqRange(write_access) :
                   Identifier(g) # ""}
        level(g) == IF g \in SeqRange(read_access)
                    THEN IF g \in SeqRange(write_access)
                         THEN "read/write" ELSE "read"
                    ELSE "write"
    IN [g \in ids |->
           Ace("ALLOW", Identifier(g), 0, str_to_acemask(level(g), FALSE))]

\* collection.update_acl(read_access, write_access)
Collection_update_acl(t, coll, read_access, write_access) ==
    Put(t, SelfKey(coll.path),
        [t[SelfKey(coll.path)] EXCEPT
            !.container_acl = BuildAcl(read_access, write_access)])

\* collection.update_cdmi_acl(cdmi_acl), cdmi_acl a list of ACE
Collection_update_cdmi_acl(t, coll, cdmi_acl) ==
    LET usable == {i \in 1..Len(cdmi_acl) :
                      GroupFind(cdmi_acl[i].identifier) # None}
        gidOf(i) == GroupFind(cdmi_acl[i].identifier).uuid
        lastOf(g) == CHOOSE i \in usable :
                        gidOf(i) = g /\ \A j \in usable : gidOf(j) = g => j <= i
        acl == [g \in {gidOf(i) : i \in usable} |->
                   Ace(cdmi_acl[lastOf(g)].acetype, cdmi_acl[lastOf(g)].identifier,
                       cdmi_acl[lastOf(g)].aceflags, cdmi_acl[lastOf(g)].acemask)]
    IN Put(t, SelfKey(coll.path),
           [t[SelfKey(coll.path)] EXCEPT !.container_acl = acl])

----------------------------------------------------------------------------
(* Permission resolution (indigo/models/collection.py) *)

\* the actions of one level
LevelActions(level) ==
    IF level = "read" THEN {"read"}
    ELSE IF level = "write" THEN {"write", "delete", "edit"}
    ELSE IF level = "read/write" THEN {"read", "write", "delete", "edit"}
    ELSE {}

\* the loop over user.groups + ["AUTHENTICATED@"]
GrantedActions(acl, user) ==
    UNION {LevelActions(acemask_to_str(acl[gid].acemask, FALSE)) :
              gid \in SeqRange(user.groups \o <<Authenticated>>) \cap DOMAIN acl}

RECURSIVE get_authorized_actions(_, _, _)

\* get_authorized_actions adding what the parent grants to the node's own ACL
get_authorized_actions_merged(t, coll, user) ==
    IF coll.is_root
    THEN [result |-> "ok", actions |-> GrantedActions(coll.acl, user)]
    ELSE LET parent_container == find(t, coll.parent)
         IN IF parent_container = None
            THEN [result |-> "AttributeError", actions |-> {}]
            ELSE LET up == get_authorized_actions(t, parent_container, user)
                 IN [result |-> up.result,
                     actions |-> up.actions \cup GrantedActions(coll.acl, user)]

\* collection.get_authorized_actions(user)
get_authorized_actions(t, coll, user) ==
    IF coll.acl = EmptyAcl
    THEN IF coll.is_root
         THEN [result |-> "ok", actions |-> {}]
         ELSE LET parent_container == find(t, coll.parent)
              IN IF parent_container = None
                 THEN [result |-> "AttributeError", actions |-> {}]
                 ELSE get_authorized_actions(t, parent_container, user)
    ELSE [result |-> "ok", actions |-> GrantedActions(coll.acl, user)]

\* user_can without the administrator's short cut
user_can_noAdmin(t, coll, user, action) ==
    LET r == get_authorized_actions(t, coll, user)
    IN [result |-> r.result, value |-> action \in r.actions]

\* collection.user_can(user, action)
user_can(t, coll, user, action) ==
    IF user.administrator
    THEN [result |-> "ok", value |-> TRUE]
    ELSE LET r == get_authorized_actions(t, coll, user)
         IN [result |-> r.result, value |-> action \in r.actions]

----------------------------------------------------------------------------
(* The calls on the ACL of the collections "/", "/a" and "/a/b" *)

AclTargets == {<<Root, NameSeq[1]>>, <<merge(Root, NameSeq[1]), NameSeq[2]>>}
AclPaths == {Root} \cup {merge(c[1], c[2]) : c \in AclTargets}
AclInputs == {<< <<>>, <<>> >>, << <<>>, <<"g1">> >>,
              << <<"g1">>, <<Authenticated>> >>, << <<"g1">>, <<"g1">> >>}
CdmiAcls == {<<Ace("ALLOW", "G1", 0, MaskOther)>>}

AclCreateRoot ==
    /\ SelfKey(Root) \notin DOMAIN tree_entry
    /\ nextId <= MaxIds
    /\ tree_entry' = create_root(tree_entry, nextId)
    /\ nextId' = nextId + 1
    /\ last' = Call("createRoot", Root, <<>>, "ok")
    /\ UNCHANGED <<data_object, pre, preData, search_index, procs>>

AclCreateCollection ==
    \E c \in AclTargets :
        LET r == create(tree_entry, c[1], c[2], nextId, nextId + 1)
        IN /\ nextId + 1 <= MaxIds
           /\ r.result = "ok"
           /\ tree_entry' = r.tree
           /\ nextId' = nextId + 2
           /\ last' = Call("createCollection", c[1], c[2], r.result)
           /\ UNCHANGED <<data_object, pre, preData, search_index, procs>>

AclDeleteCollection ==
    \E path \in AclPaths :
        LET coll == find(tree_entry, path)
        IN /\ coll # None
           /\ tree_entry' = delete(tree_entry, coll)
           /\ last' = Call("deleteCollection", path, <<>>, "ok")
           /\ UNCHANGED <<data_object, nextId, pre, preData, search_index, procs>>

UpdateAcl ==
    \E path \in AclPaths, access \in AclInputs :
        LET coll == find(tree_entry, path)
        IN /\ coll # None
           /\ tree_entry' = Collection_update_acl(tree_entry, coll,
                                                  access[1], access[2])
           /\ last' = Call("updateAcl", path, <<>>, "ok")
           /\ UNCHANGED <<data_object, nextId, pre, preData, search_index, procs>>

UpdateCdmiAcl ==
    \E path \in AclPaths, cdmi_acl \in CdmiAcls :
        LET coll == find(tree_entry, path)
        IN /\ coll # None
           /\ tree_entry' = Collection_update_cdmi_acl(tree_entry, coll, cdmi_acl)
           /\ last' = Call("updateCdmiAcl", path, <<>>, "ok")
           /\ UNCHANGED <<data_object, nextId, pre, preData, search_index, procs>>

\* get_authorized_actions(user) and user_can(user, action) on one collection
Resolve ==
    \E path \in AclPaths, user \in Users :
        LET coll == find(tree_entry, path)
            r == get_authorized_actions(tree_entry, coll, user)
        IN /\ coll # None
           /\ last' = [op |-> "resolve", container |-> path, name |-> <<>>,
                       result |-> r.result, user |-> user,
                       actions |-> r.actions,
                       can |-> [a \in AllActions |->
                                   user_can(tree_entry, coll, user, a)]]
           /\ UNCHANGED <<tree_entry, data_object, nextId, pre, preData, search_index, procs>>

NextAcl ==
    \/ AclCreateRoot
    \/ AclCreateCollection
    \/ AclDeleteCollection
    \/ UpdateAcl
    \/ UpdateCdmiAcl
    \/ Resolve

SpecAcl == Init /\ [][NextAcl]_vars

----------------------------------------------------------------------------
(* Properties of the permission resolution *)

OwnAcl(t, path) == t[SelfKey(path)].container_acl

\* the actions a mask stands for
MaskActions(acemask) ==
    IF acemask = MaskRead THEN {"read"}
    ELSE IF acemask = MaskWrite THEN {"write", "delete", "edit"}
    ELSE IF acemask = MaskReadWrite THEN AllActions
    ELSE {}

\* the nearest proper ancestor of path that has a non-empty ACL, or NoPath
RECURSIVE NearestAcl(_, _)
NearestAcl(t, path) ==
    IF path = Root THEN NoPath
    ELSE LET p == split(path)[1]
         IN IF SelfKey(p) \in DOMAIN t /\ OwnAcl(t, p) # EmptyAcl
            THEN p
            ELSE NearestAcl(t, p)

\* every proper ancestor of path has a self-record in t
RECURSIVE AncestorsExist(_, _)
AncestorsExist(t, path) ==
    \/ path = Root
    \/ /\ SelfKey(split(path)[1]) \in DOMAIN t
       /\ AncestorsExist(t, split(path)[1])

\* C12: resolve(node, user) returns {read, write, delete, edit} for every
\* user with administrator = true, on every node and whatever the ACL.
C12_AdminResolvesAll ==
    (last.op = "resolve" /\ last.user.administrator) =>
        /\ last.result = "ok"
        /\ last.actions = AllActions

\* C13: userCan(node, user, action) is true for every node, action and ACL
\* when user.administrator is true; for any other user it is
\* (action in resolve(node, user)), and raises where resolve raises.
C13_AdminBypass ==
    last.op = "resolve" =>
        \A a \in AllActions :
            IF last.user.administrator
            THEN last.can[a] = [result |-> "ok", value |-> TRUE]
            ELSE /\ last.can[a].result = last.result
                 /\ last.result = "ok" => last.can[a].value = (a \in last.actions)

C13_Witness ==
    /\ last.op = "resolve"
    /\ last.user.administrator
    /\ last.container # Root
    /\ OwnAcl(tree_entry, last.container) # EmptyAcl
    /\ last.actions = {}
    /\ \A a \in AllActions : last.can[a].value

\* C14: for a non-administrator, resolve on a collection whose own ACL is
\* empty equals resolve on the nearest ancestor whose ACL is non-empty, and
\* is the empty set when no ancestor up to the root has an ACL.
C14_Inheritance ==
    (/\ last.op = "resolve"
     /\ ~last.user.administrator
     /\ OwnAcl(tree_entry, last.container) = EmptyAcl) =>
        LET anc == NearestAcl(tree_entry, last.container)
        IN /\ last.result = "ok"
           /\ last.actions =
                 IF anc = NoPath THEN {}
                 ELSE get_authorized_actions(tree_entry, find(tree_entry, anc),
                                             last.user).actions

\* C30: the permission walk is total: on every collection that has a
\* self-record, resolve returns a subset of {read, write, delete, edit}
\* without raising; a node other than the root with an empty ACL has the
\* self-record of its parent.
C30_WalkTotal ==
    /\ last.op = "resolve" =>
           (last.result = "ok" /\ last.actions \subseteq AllActions)
    /\ \A k \in DOMAIN tree_entry :
           (k[2] = Self /\ k[1] # Root /\ tree_entry[k].container_acl = EmptyAcl)
               => SelfKey(split(k[1])[1]) \in DOMAIN tree_entry

\* C15: when a node's own ACL is non-empty, resolve for a non-administrator
\* is the union, over the identifiers of user.groups and AUTHENTICATED@ that
\* are keys of that ACL, of the actions of their levels (none for a mask of
\* no level); it is the same whatever the other rows of the table hold.
C15_OwnAclOnly ==
    (/\ last.op = "resolve"
     /\ ~last.user.administrator
     /\ OwnAcl(tree_entry, last.container) # EmptyAcl) =>
        LET acl == OwnAcl(tree_entry, last.container)
            key == SelfKey(last.container)
            alone == [k \in {key} |-> tree_entry[key]]
        IN /\ last.result = "ok"
           /\ last.actions =
                 UNION {MaskActions(acl[g].acemask) :
                           g \in (SeqRange(last.user.groups) \cup {Authenticated})
                                    \cap DOMAIN acl}
           /\ get_authorized_actions(alone, find(alone, last.container),
                                     last.user)
                 = [result |-> last.result, actions |-> last.actions]

\* no identifier of the user is in the node's ACL while the root grants read
C15_Witness ==
    /\ last.op = "resolve"
    /\ ~last.user.administrator
    /\ last.container # Root
    /\ OwnAcl(tree_entry, last.container) # EmptyAcl
    /\ last.actions = {}
    /\ AncestorsExist(tree_entry, last.container)
    /\ GrantedActions(OwnAcl(tree_entry, Root), last.user) # {}

\* a mask of no level grants nothing
C15_WitnessUnknownMask ==
    /\ last.op = "resolve"
    /\ ~last.user.administrator
    /\ "g1" \in SeqRange(last.user.groups)
    /\ "g1" \in DOMAIN OwnAcl(tree_entry, last.container)
    /\ OwnAcl(tree_entry, last.container)["g1"].acemask = MaskOther
    /\ last.actions = {}

\* the inheritance of C14 where every ancestor has a self-record
C14_InheritanceWhereAncestorsExist ==
    (last.op = "resolve" /\ AncestorsExist(tree_entry, last.container))
        => C14_Inheritance

----------------------------------------------------------------------------
(* ACL of a data object (DataObject.update_acl, DataObject.create_acl) *)

MaxAclList == 2

\* the group ids a caller passes: a group, the sentinel, an unknown id
ObjAclIds == {"g1", Authenticated, "nobody"}

SeqsUpTo(S, n) == UNION {[1..k -> S] : k \in 0..n}

\* the pairs (read_access, write_access) of at most MaxAclList ids together
ObjAclInputs ==
    {p \in SeqsUpTo(ObjAclIds, MaxAclList) \X SeqsUpTo(ObjAclIds, MaxAclList) :
        Len(p[1]) + Len(p[2]) <= MaxAclList}

\* for gid in read_access: access[gid] = "read"
AccessAfterRead(read_access) == [g \in SeqRange(read_access) |-> "read"]

\* for gid in write_access: "read/write" if gid in access else "write"
RECURSIVE AccessAfterWrite(_, _)
AccessAfterWrite(access, write_access) ==
    IF write_access = <<>> THEN access
    ELSE LET gid == Head(write_access)
         IN AccessAfterWrite(
                Put(access, gid,
                    IF gid \in DOMAIN access THEN "read/write" ELSE "write"),
                Tail(write_access))

\* the map literal of the statement: one ACE per gid that resolves
AclLiteral(access, gids) ==
    [g \in gids |->
        Ace("ALLOW", Identifier(g), 0, str_to_acemask(access[g], TRUE))]

\* acl + literal on a map column: the keys of the literal are set, the
\* other keys stay
MapAdd(acl, literal) ==
    [g \in DOMAIN acl \cup DOMAIN literal |->
        IF g \in DOMAIN literal THEN literal[g] ELSE acl[g]]

SetAcl(d, uuid, acl) ==
    Put(d, <<uuid, StaticKey>>, [Static(d, uuid) EXCEPT !.acl = acl])

\* update_acl storing an entry for an id that resolves to nothing
DataObject_update_acl_keepUnresolved(d, uuid, read_access, write_access) ==
    LET access == AccessAfterWrite(AccessAfterRead(read_access), write_access)
    IN SetAcl(d, uuid,
              MapAdd(Static(d, uuid).acl, AclLiteral(access, DOMAIN access)))

\* data_object.update_acl(read_access, write_access):
\* UPDATE data_object SET acl = acl + {...} WHERE uuid=...
DataObject_update_acl(d, uuid, read_access, write_access) ==
    LET access == AccessAfterWrite(AccessAfterRead(read_access), write_access)
        resolved == {g \in DOMAIN access : Identifier(g) # ""}
    IN SetAcl(d, uuid,
              MapAdd(Static(d, uuid).acl, AclLiteral(access, resolved)))

\* data_object.create_acl(read_access, write_access)
DataObject_create_acl(d, uuid, read_access, write_access) ==
    DataObject_update_acl(d, uuid, read_access, write_access)

ObjCall(op, uuid, read_access, write_access, result) ==
    [op |-> op, container |-> NoPath, name |-> <<>>, result |-> result,
     uuid |-> uuid, read_access |-> read_access,
     write_access |-> write_access]

\* the uuids that have a partition
Uuids(d) == {k[1] : k \in DOMAIN d}

\* DataObject.create(InitialBlob); the ACL calls are scoped to one partition,
\* so one object is followed
ObjAclCreate ==
    /\ data_object = EmptyTable
    /\ data_object' = DataObject_create(data_object, nextId, InitialBlob, FALSE)
    /\ nextId' = nextId + 1
    /\ last' = ObjCall("createObject", nextId, <<>>, <<>>, "ok")
    /\ preData' = data_object
    /\ UNCHANGED <<tree_entry, pre, search_index, procs>>

ObjUpdateAcl ==
    \E uuid \in Uuids(data_object), p \in ObjAclInputs :
        /\ data_object' = DataObject_update_acl(data_object, uuid, p[1], p[2])
        /\ last' = ObjCall("updateAcl", uuid, p[1], p[2], "ok")
        /\ preData' = data_object
        /\ UNCHANGED <<tree_entry, nextId, pre, search_index, procs>>

ObjCreateAcl ==
    \E uuid \in Uuids(data_object), p \in ObjAclInputs :
        /\ data_object' = DataObject_create_acl(data_object, uuid, p[1], p[2])
        /\ last' = ObjCall("createAcl", uuid, p[1], p[2], "ok")
        /\ preData' = data_object
        /\ UNCHANGED <<tree_entry, nextId, pre, search_index, procs>>

NextObjAcl ==
    \/ ObjAclCreate
    \/ ObjUpdateAcl
    \/ ObjCreateAcl

SpecObjAcl == Init /\ [][NextObjAcl]_vars

----------------------------------------------------------------------------
(* Properties of the ACL of a data object *)

IsAclCall == last.op \in {"updateAcl", "createAcl"}

\* the ids of the last call, and those of them that resolve
CallIds == SeqRange(last.read_access) \cup SeqRange(last.write_access)
ResolvableIds == {g \in CallIds : find_by_uuid(g) # None \/ g = Authenticated}

ObjAcl(d, uuid) == Static(d, uuid).acl

\* C16: after createAcl/updateAcl(readIds, writeIds) on an object, its ACL
\* has entries exactly for the resolvable identifiers of the two lists; an
\* identifier that had an entry before and is in neither list has none.
C16_ObjectAclReplaced ==
    IsAclCall =>
        /\ DOMAIN ObjAcl(data_object, last.uuid) = ResolvableIds
        /\ \A g \in DOMAIN ObjAcl(preData, last.uuid) \ CallIds :
              g \notin DOMAIN ObjAcl(data_object, last.uuid)

\* the level the two lists give to identifier g
ListLevel(g) ==
    IF g \in SeqRange(last.read_access)
    THEN IF g \in SeqRange(last.write_access) THEN "read/write" ELSE "read"
    ELSE "write"

\* C17: an identifier in both lists gets read/write, one only in readIds
\* read, one only in writeIds write, in one ALLOW entry each, whatever the
\* order and the repetitions in the lists.
C17_LevelAssignment ==
    IsAclCall =>
        \A g \in ResolvableIds :
            /\ g \in DOMAIN ObjAcl(data_object, last.uuid)
            /\ ObjAcl(data_object, last.uuid)[g].acetype = "ALLOW"
            /\ acemask_to_str(ObjAcl(data_object, last.uuid)[g].acemask, TRUE)
                   = ListLevel(g)

\* C18: an identifier that is neither a group id nor AUTHENTICATED@ is
\* dropped without an error: the call completes, stores no entry for it and
\* stores an entry for every resolvable identifier of the same call.
C18_UnresolvableDropped ==
    IsAclCall =>
        /\ last.result = "ok"
        /\ \A g \in CallIds \ ResolvableIds :
              g \notin DOMAIN ObjAcl(data_object, last.uuid)
        /\ \A g \in ResolvableIds :
              /\ g \in DOMAIN ObjAcl(data_object, last.uuid)
              /\ ObjAcl(data_object, last.uuid)[g].identifier =
                     (IF g = Authenticated THEN Authenticated ELSE GroupName(g))

C18_Witness ==
    /\ last.op = "updateAcl"
    /\ last.result = "ok"
    /\ CallIds \ ResolvableIds # {}
    /\ ResolvableIds # {}
    /\ ResolvableIds \subseteq DOMAIN ObjAcl(data_object, last.uuid)

----------------------------------------------------------------------------
(* Chunks of a data object (append_chunk, chunk_content, update) *)

MaxSeq == 2

\* the sequence numbers the callers assign
SeqNumbers == 0..MaxSeq

\* a blob is a sequence of bytes; zipfile.ZipFile with one entry "data"
\* holding content is written as a marker, the entry name and the content
ZipFile(content) == <<"PK", "data">> \o content

RawBlobs == {<<"a", "b">>, <<"c", "d">>}
Archives == {ZipFile(<<"x", "y">>)}

\* (data, compressed) of create and append_chunk: a chunk flagged compressed
\* is an archive with the entry "data"
ChunkInputs == (RawBlobs \X {FALSE}) \cup (Archives \X {TRUE})

Sizes == {2}

static_fields ==
    {"checksum", "size", "metadata", "mimetype", "alt_url", "create_ts",
     "modified_ts", "type", "acl", "treepath"}

\* DataObject.append_chunk(uuid, data, sequence_number, compressed)
append_chunk(d, uuid, data, sequence_number, compressed) ==
    save(d, uuid, sequence_number, data, compressed)

\* z.read(name) of zipfile.ZipFile(StringIO(blob), 'r')
zread(blob, name) ==
    IF Len(blob) >= 2 /\ blob[1] = "PK" /\ blob[2] = name
    THEN SubSeq(blob, 3, Len(blob))
    ELSE <<"BadZipfile">>

\* the sequence numbers of partition uuid in clustering order
RECURSIVE Ascending(_)
Ascending(S) ==
    IF S = {} THEN <<>>
    ELSE LET m == CHOOSE x \in S : \A y \in S : x <= y
         IN <<m>> \o Ascending(S \ {m})

RECURSIVE Descending(_)
Descending(S) ==
    IF S = {} THEN <<>>
    ELSE LET m == CHOOSE x \in S : \A y \in S : x >= y
         IN <<m>> \o Descending(S \ {m})

\* what one row yields
ChunkBuffer(row) ==
    IF row.compressed THEN zread(row.blob, "data") ELSE row.blob

\* chunk_content reading the rows from the highest sequence_number down
chunk_content_descending(d, uuid) ==
    LET order == Descending({k[2] : k \in ChunkKeys(d, uuid)})
    IN [i \in 1..Len(order) |-> ChunkBuffer(d[<<uuid, order[i]>>])]

\* data_object.chunk_content(): the buffers it yields, in order
chunk_content(d, uuid) ==
    LET order == Ascending({k[2] : k \in ChunkKeys(d, uuid)})
    IN [i \in 1..Len(order) |-> ChunkBuffer(d[<<uuid, order[i]>>])]

\* data_object.update(arg=value): a static field is set for the partition;
\* the statement of a per-chunk field reads self.container, which a
\* DataObject does not have
DataObject_update(d, uuid, arg, value) ==
    IF arg \in static_fields
    THEN [data |-> Put(d, <<uuid, StaticKey>>,
                       [Static(d, uuid) EXCEPT ![arg] = value]),
          result |-> "ok"]
    ELSE [data |-> d, result |-> "AttributeError"]

ChunkCall(op, uuid, sequence_number, data, compressed, result, yields) ==
    [op |-> op, container |-> NoPath, name |-> <<>>, result |-> result,
     uuid |-> uuid, sequence_number |-> sequence_number, data |-> data,
     compressed |-> compressed, yields |-> yields]

\* DataObject.create(data, compressed); the chunk calls are scoped to one
\* partition, so one object is followed
ChunkCreate ==
    \E c \in ChunkInputs :
        /\ data_object = EmptyTable
        /\ data_object' = DataObject_create(data_object, nextId, c[1], c[2])
        /\ nextId' = nextId + 1
        /\ last' = ChunkCall("createObject", nextId, 0, c[1], c[2], "ok", <<>>)
        /\ preData' = data_object
        /\ UNCHANGED <<tree_entry, pre, search_index, procs>>

AppendChunk ==
    \E uuid \in Uuids(data_object), n \in SeqNumbers, c \in ChunkInputs :
        /\ data_object' = append_chunk(data_object, uuid, c[1], n, c[2])
        /\ last' = ChunkCall("appendChunk", uuid, n, c[1], c[2], "ok", <<>>)
        /\ preData' = data_object
        /\ UNCHANGED <<tree_entry, nextId, pre, search_index, procs>>

UpdateStatic ==
    \E uuid \in Uuids(data_object), size \in Sizes :
        LET r == DataObject_update(data_object, uuid, "size", size)
        IN /\ data_object' = r.data
           /\ last' = ChunkCall("updateStatic", uuid, 0, <<>>, FALSE,
                                r.result, <<>>)
           /\ preData' = data_object
           /\ UNCHANGED <<tree_entry, nextId, pre, search_index, procs>>

UpdateChunk ==
    \E uuid \in Uuids(data_object), flag \in BOOLEAN :
        LET r == DataObject_update(data_object, uuid, "compressed", flag)
        IN /\ data_object' = r.data
           /\ last' = ChunkCall("updatePerChunk", uuid, 0, <<>>, flag,
                                r.result, <<>>)
           /\ preData' = data_object
           /\ UNCHANGED <<tree_entry, nextId, pre, search_index, procs>>

ReadContent ==
    \E uuid \in Uuids(data_object) :
        /\ last' = ChunkCall("readContent", uuid, 0, <<>>, FALSE, "ok",
                             chunk_content(data_object, uuid))
        /\ preData' = data_object
        /\ UNCHANGED <<tree_entry, data_object, nextId, pre, search_index, procs>>

NextChunks ==
    \/ ChunkCreate
    \/ AppendChunk
    \/ UpdateStatic
    \/ UpdateChunk
    \/ ReadContent

SpecChunks == Init /\ [][NextChunks]_vars

----------------------------------------------------------------------------
(* Properties of the chunks *)

SeqsOf(d, uuid) == {k[2] : k \in ChunkKeys(d, uuid)}

\* the buffer a row stands for: its blob, or the content of its archive
IsBufferOf(buffer, row) ==
    IF row.compressed THEN ZipFile(buffer) = row.blob ELSE buffer = row.blob

OtherChunksUnchanged ==
    /\ SeqsOf(data_object, last.uuid) = SeqsOf(preData, last.uuid)
    /\ \A m \in SeqsOf(preData, last.uuid) \ {last.sequence_number} :
          data_object[<<last.uuid, m>>] = preData[<<last.uuid, m>>]

IsReappend ==
    /\ last.op = "appendChunk"
    /\ <<last.uuid, last.sequence_number>> \in DOMAIN preData

\* C20: appendChunk on a sequence number n that already has a chunk replaces
\* the chunk without an error: one row (uuid, n) with the new data and flag,
\* the other chunk rows and the static columns unchanged.
C20_ReappendReplaces ==
    IsReappend =>
        /\ last.result = "ok"
        /\ data_object[<<last.uuid, last.sequence_number>>] =
               [blob |-> last.data, compressed |-> last.compressed]
        /\ OtherChunksUnchanged
        /\ Static(data_object, last.uuid) = Static(preData, last.uuid)

\* the part of C20 about the chunk rows
C20_ReappendReplacesChunk ==
    IsReappend =>
        /\ last.result = "ok"
        /\ data_object[<<last.uuid, last.sequence_number>>] =
               [blob |-> last.data, compressed |-> last.compressed]
        /\ OtherChunksUnchanged

----------------------------------------------------------------------------
(* Deleting a data object (DataObject.delete_id, DataObject.find) *)

MaxObjects == 2

\* the uuids default_cdmi_id() hands out
ObjectIds == 1..MaxObjects

\* (data, compressed) of the chunks appended after chunk 0
AppendInput == << <<"a", "b">>, FALSE >>

IdentityCreate ==
    \E c \in ChunkInputs :
        /\ nextId \in ObjectIds
        /\ data_object' = DataObject_create(data_object, nextId, c[1], c[2])
        /\ nextId' = nextId + 1
        /\ last' = ChunkCall("createObject", nextId, 0, c[1], c[2], "ok", <<>>)
        /\ preData' = data_object
        /\ UNCHANGED <<tree_entry, pre, search_index, procs>>

IdentityAppend ==
    \E uuid \in Uuids(data_object), n \in SeqNumbers :
        /\ data_object' = append_chunk(data_object, uuid, AppendInput[1], n,
                                       AppendInput[2])
        /\ last' = ChunkCall("appendChunk", uuid, n, AppendInput[1],
                             AppendInput[2], "ok", <<>>)
        /\ preData' = data_object
        /\ UNCHANGED <<tree_entry, nextId, pre, search_index, procs>>

\* DataObject.delete_id(uuid), of a uuid that has a partition or has none
DeleteIdentity ==
    \E uuid \in ObjectIds :
        /\ data_object' = delete_id(data_object, uuid)
        /\ last' = ChunkCall("deleteIdentity", uuid, 0, <<>>, FALSE, "ok", <<>>)
        /\ preData' = data_object
        /\ UNCHANGED <<tree_entry, nextId, pre, search_index, procs>>

NextIdentity ==
    \/ IdentityCreate
    \/ IdentityAppend
    \/ DeleteIdentity

SpecIdentity == Init /\ [][NextIdentity]_vars

\* C21: after deleteIdentity(uuid) no row of data_object with that uuid
\* remains, neither a chunk row nor the static columns; find(uuid) returns
\* None without raising and the rows of every other uuid are unchanged.
C21_DeleteIdentity ==
    last.op = "deleteIdentity" =>
        /\ last.result = "ok"
        /\ \A k \in DOMAIN data_object : k[1] # last.uuid
        /\ DataObjectFind(data_object, last.uuid) = None
        /\ DOMAIN data_object \subseteq DOMAIN preData
        /\ \A k \in DOMAIN preData :
              k[1] # last.uuid =>
                  (k \in DOMAIN data_object /\ data_object[k] = preData[k])

C21_Witness ==
    /\ last.op = "deleteIdentity"
    /\ <<last.uuid, StaticKey>> \in DOMAIN preData
    /\ Cardinality(ChunkKeys(preData, last.uuid)) >= 2
    /\ \E k \in DOMAIN data_object : k[1] # last.uuid /\ k[2] # StaticKey

\* the static part of the routing: the identity-wide value is set and no
\* chunk row changes
StaticRouting ==
    last.op = "updateStatic" =>
        /\ last.result = "ok"
        /\ Static(data_object, last.uuid).size \in Sizes
        /\ ChunkKeys(data_object, last.uuid) = ChunkKeys(preData, last.uuid)
        /\ \A k \in ChunkKeys(preData, last.uuid) : data_object[k] = preData[k]

\* the per-chunk part of the routing: the update succeeds and changes the
\* row of the handle only
PerChunkRouting ==
    last.op = "updatePerChunk" =>
        /\ last.result = "ok"
        /\ data_object[<<last.uuid, last.sequence_number>>] =
               [preData[<<last.uuid, last.sequence_number>>]
                   EXCEPT !.compressed = last.compressed]
        /\ OtherChunksUnchanged
        /\ Static(data_object, last.uuid) = Static(preData, last.uuid)

\* C22: updating a static field changes the identity-wide value and no chunk
\* row; updating a per-chunk field succeeds and changes only the row
\* (uuid, sequence_number) of the handle, the other chunks and the static
\* columns staying as they are.
C22_UpdateRouting == StaticRouting /\ PerChunkRouting

----------------------------------------------------------------------------
(* Collection.create one statement at a time, by two callers *)

\* INSERT ... IF NOT EXISTS: nothing is written over an existing row
TreeEntryInsert_ifNotExists(t, container, name, id, cid) ==
    IF <<container, name>> \in DOMAIN t THEN t
    ELSE Put(t, <<container, name>>, Row(id, cid, EmptyAcl))

\* the INSERT of TreeEntry.create over a table that may hold the row: the
\* columns that have a value are written, the others stay as they are
TreeEntryInsert(t, container, name, id, cid) ==
    IF <<container, name>> \in DOMAIN t
    THEN Put(t, <<container, name>>,
             [t[<<container, name>>] EXCEPT
                 !.container_id = cid,
                 !.id = IF id = NoId THEN @ ELSE id])
    ELSE Put(t, <<container, name>>, Row(id, cid, EmptyAcl))

\* the writes of create with the row held by the parent written first
create_step_childFirst(t, pc, container, name, cid, newid) ==
    LET path == merge(container, name)
    IN IF pc = "write_self"
       THEN TreeEntryInsert(t, container, name \o Slash, newid, newid)
       ELSE IF pc = "set_id"
       THEN t
       ELSE LET t1 == TreeEntryInsert(t, path, Self, NoId, newid)
            IN TreeEntrySetId(t1, <<path, Self>>, cid)

\* one write of Collection.create: the self-record, its id, the row held by
\* the parent; cid is coll_entry.container_id as the caller holds it and
\* newid the container_id default of the row inserted
create_step(t, pc, container, name, cid, newid) ==
    LET path == merge(container, name)
    IN IF pc = "write_self"
       THEN TreeEntryInsert(t, path, Self, NoId, newid)
       ELSE IF pc = "set_id"
       THEN TreeEntrySetId(t, <<path, Self>>, cid)
       ELSE TreeEntryInsert(t, container, name \o Slash, cid, newid)

\* the targets (container, name) the two callers create
RaceTargets == {<<Root, <<"a">>>>, <<merge(Root, <<"a">>), <<"b">>>>}

Active(p) == procs[p].pc \notin {"idle", "done"}
WritePcs == {"write_self", "set_id", "write_child"}

\* the self-record of path is there and the row held by the parent is not
Dangling(t, container, name) ==
    /\ SelfKey(merge(container, name)) \in DOMAIN t
    /\ <<container, name \o Slash>> \notin DOMAIN t

SetProc(p, rec) == procs' = [procs EXCEPT ![p] = rec]

RaceCreateRoot ==
    /\ SelfKey(Root) \notin DOMAIN tree_entry
    /\ nextId <= MaxIds
    /\ tree_entry' = create_root(tree_entry, nextId)
    /\ nextId' = nextId + 1
    /\ last' = Call("createRoot", Root, <<>>, "ok")
    /\ UNCHANGED <<data_object, pre, preData, search_index, procs>>

\* a caller enters Collection.create(name, container); reissue tells that
\* it finds the state a crashed create of the same target has left
Begin(p) ==
    \E target \in RaceTargets :
        /\ ~Active(p)
        /\ nextId + 2 * Cardinality({q \in Procs : Active(q)}) + 1 <= MaxIds
        /\ SetProc(p, [pc |-> "check_parent", container |-> target[1],
                       name |-> target[2], cid |-> NoId, result |-> "none",
                       reissue |->
                           /\ Dangling(tree_entry, target[1], target[2])
                           /\ \A q \in Procs \ {p} :
                                 ~(/\ Active(q)
                                   /\ procs[q].container = target[1]
                                   /\ procs[q].name = target[2])])
        /\ UNCHANGED <<tree_entry, data_object, nextId, last, pre, preData,
                       search_index>>

Fail(p, error) ==
    /\ SetProc(p, [procs[p] EXCEPT !.pc = "done", !.result = error])
    /\ last' = Call("createCollection", procs[p].container, procs[p].name,
                    error)

Pass(p, pc) ==
    /\ SetProc(p, [procs[p] EXCEPT !.pc = pc])
    /\ UNCHANGED last

\* parent = Collection.find(container)
CheckParent(p) ==
    /\ procs[p].pc = "check_parent"
    /\ IF find(tree_entry, procs[p].container) = None
       THEN Fail(p, "NoSuchCollectionError")
       ELSE Pass(p, "check_resource")
    /\ UNCHANGED <<tree_entry, data_object, nextId, pre, preData,
                   search_index>>

\* resource = Resource.find(merge(container, name))
CheckResource(p) ==
    /\ procs[p].pc = "check_resource"
    /\ IF ResourceFind(tree_entry,
                       merge(procs[p].container, procs[p].name)) # None
       THEN Fail(p, "ResourceConflictError")
       ELSE Pass(p, "check_collection")
    /\ UNCHANGED <<tree_entry, data_object, nextId, pre, preData,
                   search_index>>

\* collection = Collection.find(path)
CheckCollection(p) ==
    /\ procs[p].pc = "check_collection"
    /\ IF find(tree_entry, merge(procs[p].container, procs[p].name)) # None
       THEN Fail(p, "CollectionConflictError")
       ELSE Pass(p, "write_self")
    /\ UNCHANGED <<tree_entry, data_object, nextId, pre, preData,
                   search_index>>

\* coll_entry = TreeEntry.create(container=path, name='.')
WriteSelf(p) ==
    /\ procs[p].pc = "write_self"
    /\ tree_entry' = create_step(tree_entry, "write_self", procs[p].container,
                                 procs[p].name, NoId, nextId)
    /\ nextId' = nextId + 1
    /\ SetProc(p, [procs[p] EXCEPT !.pc = "set_id", !.cid = nextId])
    /\ UNCHANGED <<data_object, last, pre, preData, search_index>>

\* coll_entry.id = coll_entry.container_id; coll_entry.save()
SetId(p) ==
    /\ procs[p].pc = "set_id"
    /\ tree_entry' = create_step(tree_entry, "set_id", procs[p].container,
                                 procs[p].name, procs[p].cid, NoId)
    /\ SetProc(p, [procs[p] EXCEPT !.pc = "write_child"])
    /\ UNCHANGED <<data_object, nextId, last, pre, preData, search_index>>

\* child_entry = TreeEntry.create(container=container, name=name + '/',
\* id=coll_entry.container_id); return Collection.find(path)
WriteChild(p) ==
    /\ procs[p].pc = "write_child"
    /\ tree_entry' = create_step(tree_entry, "write_child", procs[p].container,
                                 procs[p].name, procs[p].cid, nextId)
    /\ nextId' = nextId + 1
    /\ SetProc(p, [procs[p] EXCEPT !.pc = "done", !.result = "ok"])
    /\ last' = Call("createCollection", procs[p].container, procs[p].name, "ok")
    /\ UNCHANGED <<data_object, pre, preData, search_index>>

\* the caller stops between two statements and runs no further one
Crash(p) ==
    /\ Active(p)
    /\ SetProc(p, IdleProc)
    /\ last' = Call("crash", procs[p].container, procs[p].name, procs[p].pc)
    /\ UNCHANGED <<tree_entry, data_object, nextId, pre, preData,
                   search_index>>

NextRace ==
    \/ RaceCreateRoot
    \/ \E p \in Procs : Begin(p)
    \/ \E p \in Procs : CheckParent(p)
    \/ \E p \in Procs : CheckResource(p)
    \/ \E p \in Procs : CheckCollection(p)
    \/ \E p \in Procs : WriteSelf(p)
    \/ \E p \in Procs : SetId(p)
    \/ \E p \in Procs : WriteChild(p)
    \/ \E p \in Procs : Crash(p)

SpecRace == Init /\ [][NextRace]_vars

----------------------------------------------------------------------------
(* Properties of the interleaved creates *)

TargetPath(p) == merge(procs[p].container, procs[p].name)
TargetChild(p) == <<procs[p].container, procs[p].name \o Slash>>

\* one step of caller p after its three checks: it runs no further check,
\* and what it writes replaces what the other caller has written
WritesBlindly(p) ==
    /\ (procs[p].pc \in WritePcs /\ procs'[p].pc = "done") =>
           procs'[p].result = "ok"
    /\ (procs[p].pc = "write_self" /\ procs'[p].pc = "set_id") =>
           /\ SelfKey(TargetPath(p)) \in DOMAIN tree_entry'
           /\ tree_entry'[SelfKey(TargetPath(p))].container_id = procs'[p].cid
    /\ (procs[p].pc = "write_child" /\ procs'[p].pc = "done") =>
           /\ TargetChild(p) \in DOMAIN tree_entry'
           /\ tree_entry'[TargetChild(p)].id = procs[p].cid

\* C23: two concurrent createCollection calls for the same target can both
\* pass the three existence checks; a call that has passed them writes its
\* rows over those of the other (last write wins) and ends without
\* CollectionConflictError.
C23_CreateRace == [][\A p \in Procs : WritesBlindly(p)]_vars

\* both callers have completed a create of the same target without an error
BothCreated ==
    /\ \A p \in Procs : procs[p].pc = "done" /\ procs[p].result = "ok"
    /\ \A p, q \in Procs : TargetPath(p) = TargetPath(q)

C23_Witness ==
    /\ BothCreated
    /\ \E p, q \in Procs : procs[p].cid # procs[q].cid

\* C26: the self-record is written before the row held by the parent: in
\* every state of a create, and after a crash between its writes, a
\* child-record of a collection has the self-record of that collection.
C26_SelfBeforeChild ==
    \A k \in DOMAIN tree_entry :
        IsChildCollectionName(k[2]) =>
            SelfKey(merge(k[1], StripSlash(k[2]))) \in DOMAIN tree_entry

C26_Witness ==
    /\ last.op = "crash"
    /\ last.result \in {"set_id", "write_child"}
    /\ Dangling(tree_entry, last.container, last.name)
    /\ \E k \in DOMAIN tree_entry : IsChildCollectionName(k[2])

\* the target of caller p has its two rows and they carry one id
Paired(p) ==
    /\ SelfKey(TargetPath(p)) \in DOMAIN tree_entry
    /\ TargetChild(p) \in DOMAIN tree_entry
    /\ tree_entry[TargetChild(p)].id = tree_entry[SelfKey(TargetPath(p))].id

\* C27: a createCollection issued again after one that crashed between its
\* two writes does not fail and leaves the self-record and the child-record
\* with one id.
C27_ReissueCompletes ==
    \A p \in Procs :
        (procs[p].pc = "done" /\ procs[p].reissue) =>
            (procs[p].result = "ok" /\ Paired(p))

\* C29: after two interleaved createCollection calls for the same target have
\* both completed, the child-record id equals the id and the container_id of
\* the self-record, in every interleaving of their writes.
C29_RaceIdsAgree ==
    BothCreated =>
        \A p \in Procs :
            /\ Paired(p)
            /\ tree_entry[TargetChild(p)].id =
                   tree_entry[SelfKey(TargetPath(p))].container_id

----------------------------------------------------------------------------
(* Collection.delete_all one statement at a time, and its crash *)

Snap(t, d) == [tree |-> t, data |-> d]
Steps(trace, t, d, result) ==
    [trace |-> trace, tree |-> t, data |-> d, result |-> result]

\* collection.delete(): the tables after each of its statements
delete_steps(t, d, coll) ==
    LET t1 == Remove(t, FilterContainer(t, coll.path))
        child == <<coll.parent, coll.name \o Slash>>
    IN IF child \in DOMAIN t1
       THEN <<Snap(t1, d), Snap(Remove(t1, {child}), d)>>
       ELSE <<Snap(t1, d)>>

\* the loop over resources, the tables after each resource.delete()
RECURSIVE DeleteResourcesSteps(_, _, _)
DeleteResourcesSteps(t, d, resources) ==
    IF Len(resources) = 0 THEN Steps(<<>>, t, d, "ok")
    ELSE IF Head(resources) = None THEN Steps(<<>>, t, d, "AttributeError")
    ELSE LET r == ResourceDelete(t, d, Head(resources))
             rest == DeleteResourcesSteps(r.tree, r.data, Tail(resources))
         IN Steps(<<Snap(r.tree, r.data)>> \o rest.trace,
                  rest.tree, rest.data, rest.result)

RECURSIVE delete_all_steps(_, _, _)
RECURSIVE DeleteCollectionsSteps(_, _, _)

\* the loop over child collections
DeleteCollectionsSteps(t, d, collections) ==
    IF Len(collections) = 0 THEN Steps(<<>>, t, d, "ok")
    ELSE IF Head(collections) = None THEN Steps(<<>>, t, d, "AttributeError")
    ELSE LET r == delete_all_steps(t, d, Head(collections).path)
         IN IF r.result = "ok"
            THEN LET rest == DeleteCollectionsSteps(r.tree, r.data,
                                                    Tail(collections))
                 IN Steps(r.trace \o rest.trace, rest.tree, rest.data,
                          rest.result)
            ELSE r

\* Collection.delete_all(path): the tables after each delete statement it
\* executes, in order
delete_all_steps(t, d, path) ==
    LET parent == find(t, path)
    IN IF parent = None THEN Steps(<<>>, t, d, "ok")
       ELSE LET ch == get_child(t, parent)
                collections == [i \in 1..Len(ch[1]) |->
                                   find(t, merge(path, ch[1][i]))]
                resources == [i \in 1..Len(ch[2]) |->
                                   ResourceFind(t, merge(path, ch[2][i]))]
                r1 == DeleteResourcesSteps(t, d, resources)
                r2 == IF r1.result = "ok"
                      THEN DeleteCollectionsSteps(r1.tree, r1.data, collections)
                      ELSE r1
            IN IF r1.result # "ok" THEN r1
               ELSE IF r2.result # "ok"
               THEN Steps(r1.trace \o r2.trace, r2.tree, r2.data, r2.result)
               ELSE LET last_steps == delete_steps(r2.tree, r2.data, parent)
                        end == last_steps[Len(last_steps)]
                    IN Steps(r1.trace \o r2.trace \o last_steps,
                             end.tree, end.data, "ok")

CrashCall(op, container, result, crashed, paired) ==
    [op |-> op, container |-> container, name |-> <<>>, result |-> result,
     crashed |-> crashed, paired |-> paired]

CrashCreateRoot ==
    /\ SelfKey(Root) \notin DOMAIN tree_entry
    /\ nextId <= MaxIds
    /\ tree_entry' = create_root(tree_entry, nextId)
    /\ nextId' = nextId + 1
    /\ last' = CrashCall("createRoot", Root, "ok", NoPath, FALSE)
    /\ UNCHANGED <<data_object, pre, preData, search_index, procs>>

CrashCreateCollection ==
    \E container \in Containers, name \in Names :
        LET r == create(tree_entry, container, name, nextId, nextId + 1)
        IN /\ nextId + 1 <= MaxIds
           /\ r.result = "ok"
           /\ tree_entry' = r.tree
           /\ nextId' = nextId + 2
           /\ last' = CrashCall("createCollection", merge(container, name),
                                "ok", NoPath, FALSE)
           /\ UNCHANGED <<data_object, pre, preData, search_index, procs>>

CrashCreateObject ==
    \E container \in Containers, name \in Names :
        LET r == ResourceCreate(tree_entry, data_object, container, name,
                                nextId, nextId + 1)
        IN /\ nextId + 1 <= MaxIds
           /\ r.result = "ok"
           /\ tree_entry' = r.tree
           /\ data_object' = r.data
           /\ nextId' = nextId + 2
           /\ last' = CrashCall("createObject", merge(container, name),
                                "ok", NoPath, FALSE)
           /\ UNCHANGED <<pre, preData, search_index, procs>>

\* delete_all(path) that stops after its i-th delete statement, with at
\* least one more to run
CrashedDeleteRecursive ==
    \E path \in Paths :
        LET r == delete_all_steps(tree_entry, data_object, path)
        IN \E i \in 1..(Len(r.trace) - 1) :
              /\ tree_entry' = r.trace[i].tree
              /\ data_object' = r.trace[i].data
              /\ last' = CrashCall("crash", path, "deleteRecursive", path,
                                   PairingInv(tree_entry))
              /\ pre' = tree_entry
              /\ preData' = data_object
              /\ UNCHANGED <<nextId, search_index, procs>>

\* collection.delete() that stops between its two statements
CrashedDeleteCollection ==
    \E path \in Paths :
        LET coll == find(tree_entry, path)
        IN /\ coll # None
           /\ Len(delete_steps(tree_entry, data_object, coll)) = 2
           /\ tree_entry' = delete_steps(tree_entry, data_object, coll)[1].tree
           /\ last' = CrashCall("crash", path, "deleteCollection", path,
                                PairingInv(tree_entry))
           /\ pre' = tree_entry
           /\ preData' = data_object
           /\ UNCHANGED <<data_object, nextId, search_index, procs>>

\* delete_all issued after the crash, on the same path or on an ancestor
ReissueDeleteRecursive ==
    \E path \in Paths :
        LET r == delete_all(tree_entry, data_object, path)
        IN /\ last.op = "crash"
           /\ InSubtree(last.container, path)
           /\ tree_entry' = r.tree
           /\ data_object' = r.data
           /\ last' = CrashCall("reissue", path, r.result, last.crashed,
                                last.paired)
           /\ pre' = tree_entry
           /\ preData' = data_object
           /\ UNCHANGED <<nextId, search_index, procs>>

NextCrash ==
    \/ CrashCreateRoot
    \/ CrashCreateCollection
    \/ CrashCreateObject
    \/ CrashedDeleteRecursive
    \/ CrashedDeleteCollection
    \/ ReissueDeleteRecursive

SpecCrash == Init /\ [][NextCrash]_vars

\* the statements of delete_all, run to the end, give what delete_all gives
StepsAgree ==
    \A path \in Paths :
        LET r == delete_all_steps(tree_entry, data_object, path)
            a == delete_all(tree_entry, data_object, path)
        IN r.result = a.result /\ r.tree = a.tree /\ r.data = a.data

\* C28: from a partial state left by a deleteRecursive or a deleteCollection
\* that crashed between two of its deletes, deleteRecursive issued again on
\* the same path or on an ancestor completes without raising and removes
\* every remaining row of the subtree, a child-record whose self-record is
\* gone included.
C28_ReissueDeletes ==
    (last.op = "reissue" /\ last.paired) =>
        /\ last.result = "ok"
        /\ \A k \in DOMAIN tree_entry : ~InSubtree(k[1], last.container)
        /\ last.container # Root =>
               ChildKey(last.container) \notin DOMAIN tree_entry
        /\ last.crashed # Root =>
               ChildKey(last.crashed) \notin DOMAIN tree_entry

----------------------------------------------------------------------------
(* The term index (indigo/models/search2.py) *)

\* t.lower() on the letters that occur
LowerChar(c) ==
    IF c = "T" THEN "t" ELSE IF c = "C" THEN "c" ELSE IF c = "S" THEN "s"
    ELSE c
lower(s) == [i \in 1..Len(s) |-> LowerChar(s[i])]

\* t.replace(old, new) of one character
replace(s, old, new) == [i \in 1..Len(s) |-> IF s[i] = old THEN new ELSE s[i]]

\* t.split(' '): the pieces between the spaces, the empty ones included
RECURSIVE str_split(_, _)
str_split(s, piece) ==
    IF s = <<>> THEN <<piece>>
    ELSE IF Head(s) = " " THEN <<piece>> \o str_split(Tail(s), <<>>)
    ELSE str_split(Tail(s), Append(piece, Head(s)))

\* clean(t) of index()
clean(t) ==
    IF t = <<>> THEN <<>>
    ELSE str_split(replace(replace(lower(t), ".", " "), "_", " "), <<>>)

\* clean_full(t) of index()
clean_full(t) == IF t = <<>> THEN <<>> ELSE lower(t)

StopWords ==
    {<<"a">>, <<"a", "n">>, <<"a", "n", "d">>,
     <<"t", "h", "e">>, <<"o", "f">>, <<"i", "s">>,
     <<"i", "n">>, <<"i", "t">>, <<"o", "r">>,
     <<"t", "o">>}

\* SearchIndex2.is_stop_word(term)
is_stop_word(term) == term \in StopWords

\* the terms index() collects for a field that is not a dictionary:
\* terms.extend([(f, el) for el in clean(attr)]);
\* terms.append((f, clean_full(attr)))
field_terms(f, attr) ==
    Append([i \in 1..Len(clean(attr)) |-> <<f, clean(attr)[i]>>],
           <<f, clean_full(attr)>>)

IndexRow(term, term_type, object_type, object_id) ==
    [term |-> term, term_type |-> term_type, object_type |-> object_type,
     object_id |-> object_id]

\* the loop of index() over the terms; an object of class Collection has no
\* attribute id, so the first row to write raises
RECURSIVE index_loop(_, _, _, _)
index_loop(rows, terms, object, count) ==
    IF terms = <<>> THEN [rows |-> rows, result |-> "ok", count |-> count]
    ELSE LET term == Head(terms)[2]
         IN IF is_stop_word(term) \/ Len(term) < 2
            THEN index_loop(rows, Tail(terms), object, count)
            ELSE IF object.class = "Collection"
            THEN [rows |-> rows, result |-> "AttributeError", count |-> count]
            ELSE index_loop(rows \cup {IndexRow(term, Head(terms)[1],
                                                object.class, object.id)},
                            Tail(terms), object, count + 1)

\* SearchIndex2.index(object) with fields = ['name']
index(rows, object) ==
    index_loop(rows, field_terms("name", object.name), object, 0)

\* Resource.find_by_id(uuid): the object named in the tree with that id
ResourceFindById(t, uuid) ==
    LET keys == {k \in DOMAIN t : IsChildObjectName(k[2]) /\ t[k].id = uuid}
    IN IF keys = {} THEN None
       ELSE LET k == CHOOSE x \in keys : TRUE
            IN [found |-> TRUE, container |-> k[1], name |-> k[2],
                id |-> uuid, class |-> "Resource"]

\* resource.user_can(user, action): the permission of the resource's
\* collection
ResourceUserCan(t, resource, user, action) ==
    LET coll == find(t, resource.container)
    IN IF coll = None THEN [result |-> "AttributeError", value |-> FALSE]
       ELSE user_can(t, coll, user, action)

\* get_object without the test of the read permission
get_object_noReadTest(t, row, user) ==
    IF row.object_type = "Collection"
    THEN [result |-> "AttributeError", object |-> None]
    ELSE IF row.object_type = "Resource"
    THEN [result |-> "ok", object |-> ResourceFindById(t, row.object_id)]
    ELSE [result |-> "ok", object |-> None]

\* get_object(obj, user) of find(); Collection has no find_by_id
get_object(t, row, user) ==
    IF row.object_type = "Collection"
    THEN [result |-> "AttributeError", object |-> None]
    ELSE IF row.object_type = "Resource"
    THEN LET r == ResourceFindById(t, row.object_id)
         IN IF r = None THEN [result |-> "ok", object |-> None]
            ELSE LET can == ResourceUserCan(t, r, user, "read")
                 IN IF can.result # "ok"
                    THEN [result |-> can.result, object |-> None]
                    ELSE IF can.value THEN [result |-> "ok", object |-> r]
                    ELSE [result |-> "ok", object |-> None]
    ELSE [result |-> "ok", object |-> None]

\* SearchIndex2.find(termstrings, user): the objects returned, as a set
SearchFind(rows, t, termstrings, user) ==
    LET wanted == {x \in SeqRange(termstrings) : ~is_stop_word(x)}
        result_objects == {row \in rows : row.term \in wanted}
        got == {get_object(t, row, user) : row \in result_objects}
    IN IF \E g \in got : g.result # "ok"
       THEN [result |-> "AttributeError", results |-> {}]
       ELSE [result |-> "ok",
             results |-> {g.object : g \in {x \in got : x.object # None}}]

\* the names of the objects that are indexed
SearchNames ==
    {<<"t", "h", "e", " ", "c", "a", "t", " ", "s", "a", "t">>,
     <<"C", "a", "t", "_", "t", "o", ".", "s">>}

\* the lists of terms that are looked up
QueryTerms ==
    {<<<<"c", "a", "t">>>>,
     <<<<"t", "h", "e">>>>,
     <<<<"t", "h", "e">>,
       <<"s", "a", "t">>>>,
     <<<<"t", "o">>, <<"c", "a", "t">>>>,
     <<<<"t", "h", "e", " ", "c", "a", "t", " ", "s", "a", "t">>>>}

SearchCall(op, object, terms, user, result, results) ==
    [op |-> op, container |-> NoPath, name |-> <<>>, result |-> result,
     object |-> object, terms |-> terms, user |-> user, results |-> results]

\* the objects that can be handed to index(): the resources and the root
Resources(t) ==
    {ResourceFindById(t, t[k].id) :
        k \in {x \in DOMAIN t : IsChildObjectName(x[2])}}

Handles(t) ==
    Resources(t) \cup
        (IF find(t, Root) = None THEN {}
         ELSE {[found |-> TRUE, container |-> Root,
                name |-> find(t, Root).name, id |-> NoId,
                class |-> "Collection"]})

SearchCreateRoot ==
    /\ SelfKey(Root) \notin DOMAIN tree_entry
    /\ nextId <= MaxIds
    /\ tree_entry' = create_root(tree_entry, nextId)
    /\ nextId' = nextId + 1
    /\ last' = SearchCall("createRoot", None, <<>>, None, "ok", {})
    /\ UNCHANGED <<data_object, pre, preData, search_index, procs>>

SearchCreateResource ==
    \E name \in SearchNames :
        LET r == ResourceCreate(tree_entry, data_object, Root, name,
                                nextId, nextId + 1)
        IN /\ nextId + 1 <= MaxIds
           /\ r.result = "ok"
           /\ tree_entry' = r.tree
           /\ data_object' = r.data
           /\ nextId' = nextId + 2
           /\ last' = SearchCall("createObject", None, <<>>, None, "ok", {})
           /\ UNCHANGED <<pre, preData, search_index, procs>>

SearchDeleteResource ==
    \E resource \in Resources(tree_entry) :
        LET r == ResourceDelete(tree_entry, data_object, resource)
        IN /\ tree_entry' = r.tree
           /\ data_object' = r.data
           /\ last' = SearchCall("deleteObject", None, <<>>, None, "ok", {})
           /\ UNCHANGED <<nextId, pre, preData, search_index, procs>>

SearchUpdateAcl ==
    \E acls \in AclInputs :
        LET coll == find(tree_entry, Root)
        IN /\ coll # None
           /\ tree_entry' = Collection_update_acl(tree_entry, coll,
                                                  acls[1], acls[2])
           /\ last' = SearchCall("updateAcl", None, <<>>, None, "ok", {})
           /\ UNCHANGED <<data_object, nextId, pre, preData, search_index,
                          procs>>

\* SearchIndex2.index(object); results holds the terms of the rows written
IndexObject ==
    \E object \in Handles(tree_entry) :
        LET r == index(search_index, object)
        IN /\ search_index' = r.rows
           /\ last' = SearchCall("index", object, <<>>, None, r.result,
                                 {row.term : row \in index({}, object).rows})
           /\ UNCHANGED <<tree_entry, data_object, nextId, pre, preData,
                          procs>>

FindTerms ==
    \E termstrings \in QueryTerms, user \in Users :
        LET r == SearchFind(search_index, tree_entry, termstrings, user)
        IN /\ last' = SearchCall("find", None, termstrings, user, r.result,
                                 r.results)
           /\ UNCHANGED <<tree_entry, data_object, nextId, pre, preData,
                          search_index, procs>>

NextSearch ==
    \/ SearchCreateRoot
    \/ SearchCreateResource
    \/ SearchDeleteResource
    \/ SearchUpdateAcl
    \/ IndexObject
    \/ FindTerms

SpecSearch == Init /\ [][NextSearch]_vars

----------------------------------------------------------------------------
(* Properties of the term index *)

Separators == {".", "_", " "}

\* the tokens of value: the longest runs without a separator of the
\* lowercased value
TokensOf(value) ==
    LET v == lower(value)
    IN {SubSeq(v, i, j) : <<i, j>> \in
           {x \in (1..Len(v)) \X (1..Len(v)) :
               /\ x[1] <= x[2]
               /\ \A m \in x[1]..x[2] : v[m] \notin Separators
               /\ (x[1] = 1 \/ v[x[1] - 1] \in Separators)
               /\ (x[2] = Len(v) \/ v[x[2] + 1] \in Separators)}}

TheCatSat == <<"t", "h", "e", " ", "c", "a", "t", " ", "s", "a", "t">>

\* C24: every term index() writes is a token obtained by lowercasing and
\* splitting on ".", "_" and space, has length >= 2 and is not a stop-word;
\* for the value "the cat sat" the rows written are those of cat and sat.
C24_TermFiltering ==
    last.op = "index" =>
        /\ \A term \in last.results :
              /\ term \in TokensOf(last.object.name)
              /\ Len(term) >= 2
              /\ term \notin StopWords
        /\ (last.result = "ok" /\ last.object.name = TheCatSat) =>
               last.results = {<<"c", "a", "t">>, <<"s", "a", "t">>}

\* the rows of the index that a call of find matches
Matched ==
    {row \in search_index :
        row.term \in SeqRange(last.terms) /\ row.term \notin StopWords}

NodeExists(uuid) ==
    \E k \in DOMAIN tree_entry :
        IsChildObjectName(k[2]) /\ tree_entry[k].id = uuid

\* C25: every result of find(terms, user) is a node that exists and that the
\* user can read, reached from an index row of a query term that is not a
\* stop-word; rows of missing or unreadable nodes and stop-word terms give
\* no result.
C25_SearchVisibility ==
    (last.op = "find" /\ last.result = "ok") =>
        \A r \in last.results :
            /\ NodeExists(r.id)
            /\ ResourceUserCan(tree_entry, r, last.user, "read").result = "ok"
            /\ ResourceUserCan(tree_entry, r, last.user, "read").value
            /\ \E row \in Matched : row.object_id = r.id

C25_Witness ==
    /\ last.op = "find"
    /\ last.results # {}
    /\ \E row \in Matched : ~NodeExists(row.object_id)
    /\ \E x \in SeqRange(last.terms) : x \in StopWords

\* a find whose only matching rows are of a node the user cannot read
C25_WitnessUnreadable ==
    /\ last.op = "find"
    /\ last.results = {}
    /\ Matched # {}
    /\ \A row \in Matched : NodeExists(row.object_id)
    /\ ~last.user.administrator

----------------------------------------------------------------------------
(* ACL of a data object from a CDMI request (DataObject.update_cdmi_acl) *)

\* a CDMI ACE is a dictionary; aceflags and acemask stand for the numbers
\* cdmi_str_to_aceflag and cdmi_str_to_acemask return for its strings
CdmiAce(acetype, identifier, aceflags, acemask) ==
    [acetype |-> acetype, identifier |-> identifier,
     aceflags |-> aceflags, acemask |-> acemask]

\* the ACEs a request carries: a group by name, with two masks, the
\* sentinel in both cases, a name no group has, an ACE with no identifier
CdmiAces ==
    {CdmiAce("allow", "G1", 0, MaskRead),
     CdmiAce("ALLOW", "G1", 0, MaskReadWrite),
     CdmiAce("allow", Authenticated, 0, MaskRead),
     CdmiAce("ALLOW", "authenticated@", 0, MaskRead),
     CdmiAce("allow", "nobody", 0, MaskRead),
     [acetype |-> "allow", aceflags |-> 0, acemask |-> MaskRead]}

ObjCdmiAcls == SeqsUpTo(CdmiAces, MaxAclList)

\* the ACEs the loop does not skip: 'identifier' in cdmi_ace, and the
\* identifier is the name of a group or, in upper case, the sentinel
HasIdentifier(cdmi_ace) == "identifier" \in DOMAIN cdmi_ace

GroupAces(cdmi_acl) ==
    {i \in 1..Len(cdmi_acl) :
        HasIdentifier(cdmi_acl[i]) /\ GroupFind(cdmi_acl[i].identifier) # None}

SentinelAces(cdmi_acl) ==
    {i \in 1..Len(cdmi_acl) :
        /\ HasIdentifier(cdmi_acl[i])
        /\ GroupFind(cdmi_acl[i].identifier) = None
        /\ upper(cdmi_acl[i].identifier) = Authenticated}

\* data_object.update_cdmi_acl(cdmi_acl):
\* UPDATE data_object SET acl={...} WHERE uuid=...
\* The key of every entry is group.uuid, also where group is None and the
\* identifier is the sentinel: that attribute access raises, and the
\* statement is never executed.
DataObject_update_cdmi_acl(d, uuid, cdmi_acl) ==
    LET usable == GroupAces(cdmi_acl)
        gidOf(i) == GroupFind(cdmi_acl[i].identifier).uuid
        lastOf(g) == CHOOSE i \in usable :
                        gidOf(i) = g /\ \A j \in usable : gidOf(j) = g => j <= i
        acl == [g \in {gidOf(i) : i \in usable} |->
                   Ace(upper(cdmi_acl[lastOf(g)].acetype),
                       GroupFind(cdmi_acl[lastOf(g)].identifier).name,
                       cdmi_acl[lastOf(g)].aceflags,
                       cdmi_acl[lastOf(g)].acemask)]
    IN IF SentinelAces(cdmi_acl) # {}
       THEN [data |-> d, result |-> "AttributeError"]
       ELSE [data |-> SetAcl(d, uuid, acl), result |-> "ok"]

ObjUpdateCdmiAcl ==
    \E uuid \in Uuids(data_object), cdmi_acl \in ObjCdmiAcls :
        LET r == DataObject_update_cdmi_acl(data_object, uuid, cdmi_acl)
        IN /\ data_object' = r.data
           /\ last' = [op |-> "updateCdmiAcl", container |-> NoPath,
                       name |-> <<>>, result |-> r.result, uuid |-> uuid,
                       cdmi_acl |-> cdmi_acl]
           /\ preData' = data_object
           /\ UNCHANGED <<tree_entry, nextId, pre, search_index, procs>>

NextObjCdmi ==
    \/ ObjAclCreate
    \/ ObjUpdateAcl
    \/ ObjUpdateCdmiAcl

SpecObjCdmi == Init /\ [][NextObjCdmi]_vars

----------------------------------------------------------------------------
(* Properties of the ACL of a data object from a CDMI request *)

\* the identifiers the stored ACL of the last call's object holds
StoredIdentifiers ==
    LET acl == ObjAcl(data_object, last.uuid)
    IN {acl[k].identifier : k \in DOMAIN acl}

\* the names of the groups the last call's list resolves
ResolvedNames ==
    {last.cdmi_acl[i].identifier : i \in GroupAces(last.cdmi_acl)}

HasSentinel ==
    \E i \in 1..Len(last.cdmi_acl) :
        /\ HasIdentifier(last.cdmi_acl[i])
        /\ last.cdmi_acl[i].identifier = Authenticated

\* C31: updateCdmiAcl with a list holding an ACE whose identifier is
\* AUTHENTICATED@ completes without raising, and the stored ACL is replaced
\* by the entries for the sentinel and for every group the list resolves,
\* the other ACEs being skipped.
C31_SentinelAccepted ==
    (last.op = "updateCdmiAcl" /\ HasSentinel) =>
        /\ last.result = "ok"
        /\ StoredIdentifiers = {Authenticated} \cup ResolvedNames

\* without a sentinel ACE the call completes and the stored ACL is
\* exactly the entries of the groups the list resolves
C31_ReplacedWithoutSentinel ==
    (last.op = "updateCdmiAcl" /\ SentinelAces(last.cdmi_acl) = {}) =>
        /\ last.result = "ok"
        /\ StoredIdentifiers = ResolvedNames

\* with a sentinel ACE the call raises and the stored ACL is the one before
C31_SentinelRaises ==
    (last.op = "updateCdmiAcl" /\ SentinelAces(last.cdmi_acl) # {}) =>
        /\ last.result = "AttributeError"
        /\ data_object = preData

\* a call with the sentinel and a group, on an object that had an ACL
C31_Reached ==
    /\ last.op = "updateCdmiAcl"
    /\ HasSentinel
    /\ ResolvedNames # {}
    /\ ObjAcl(preData, last.uuid) # EmptyAcl

====
